---- MODULE Spec2Model ----
(***************************************************************************)
(* FX hedging projection (app.py): one pass of the Streamlit script from   *)
(* the sidebar inputs to the two runway scalars.                           *)
(*                                                                         *)
(* Numbers.  Every quantity of the script is a float64 and is modelled as  *)
(* one: sign, mantissa and exponent, with the two zeros, the infinities    *)
(* and nan.  Each operation computes the exact result and rounds it once   *)
(* to 53 bits, ties to even, as IEEE-754 binary64 does, so a sum such as   *)
(* 0.3 * x + 0.7 * x need not equal x.  A zero divisor gives inf or nan    *)
(* where numpy divides and ends the run where Python divides two scalars.  *)
(* Mantissas are unbounded naturals held as sequences of 15-bit limbs.     *)
(***************************************************************************)
EXTENDS Integers, Sequences, FiniteSets

VARIABLES
    pc,
    treasury_usdt, monthly_eur_costs, monthly_pln_costs, forecast_months,
    usd_pln_start, eur_usd_start, usd_pln_end, eur_usd_end,
    hedge_coverage, otc_spread, bank_fx_spread,
    months, usd_pln_path, eur_usd_path, usd_pln_hedged, eur_usd_hedged,
    costs_unhedged, costs_hedged_part, costs_hedged, hedging_execution_costs,
    cumulative_unhedged, cumulative_hedged,
    treasury_unhedged, treasury_hedged,
    runway_unhedged, runway_hedged

inputs == <<treasury_usdt, monthly_eur_costs, monthly_pln_costs, forecast_months,
            usd_pln_start, eur_usd_start, usd_pln_end, eur_usd_end,
            hedge_coverage, otc_spread, bank_fx_spread>>

paths == <<months, usd_pln_path, eur_usd_path, usd_pln_hedged, eur_usd_hedged>>

costs == <<costs_unhedged, costs_hedged_part, costs_hedged>>

balances == <<cumulative_unhedged, cumulative_hedged, treasury_unhedged, treasury_hedged>>

runways == <<runway_unhedged, runway_hedged>>

vars == <<pc, inputs, paths, costs, hedging_execution_costs, balances, runways>>

(***************************************************************************)
(* Natural numbers of any size: limbs of 15 bits, least significant first, *)
(* no leading zero limb; <<>> is 0.  A product of two limbs fits the       *)
(* integers of the model.  Carries are looked ahead, not rippled.          *)
(***************************************************************************)
LimbBits == 15

Base == 2^LimbBits

Limb(a, i) == IF i \in DOMAIN a THEN a[i] ELSE 0

Max(S) == CHOOSE i \in S : \A j \in S : j <= i

Min(S) == CHOOSE i \in S : \A j \in S : i <= j

Zeros(n) == [i \in 1..n |-> 0]

\* a without its leading zero limbs
BigNorm(a) == SubSeq(a, 1, Max({0} \cup {i \in DOMAIN a : a[i] # 0}))

\* 0 <= n < 2^31
BigFromInt(n) == BigNorm(<<n % Base, (n \div Base) % Base, n \div (Base * Base)>>)

\* limb i of the column sums t receives a carry when a limb below it
\* overflows and every limb in between is full
CarryInto(t, i) ==
    IF \E j \in 1..(i - 1) : t[j] >= Base /\ \A k \in (j + 1)..(i - 1) : t[k] = Base - 1
    THEN 1 ELSE 0

\* the number whose limbs are the column sums t, each below 2 * Base
Carried(t) == BigNorm([i \in DOMAIN t |-> (t[i] + CarryInto(t, i)) % Base])

\* a + b
BigAdd(a, b) ==
    Carried([i \in 1..(Max({Len(a), Len(b)}) + 1) |-> Limb(a, i) + Limb(b, i)])

\* limb i of the column differences t lends when a limb below it is short
\* and every limb in between is empty
BorrowFrom(t, i) ==
    IF \E j \in 1..(i - 1) : t[j] < 0 /\ \A k \in (j + 1)..(i - 1) : t[k] = 0
    THEN 1 ELSE 0

Borrowed(t) == BigNorm([i \in DOMAIN t |-> (t[i] - BorrowFrom(t, i)) % Base])

\* a - b for a >= b
BigSub(a, b) == Borrowed([i \in 1..Len(a) |-> a[i] - Limb(b, i)])

\* the highest limb in which a and b differ, 0 if there is none
TopDifference(a, b) == Max({0} \cup {i \in DOMAIN a : a[i] # Limb(b, i)})

\* a number with the sign of a - b
BigCmp(a, b) ==
    IF Len(a) # Len(b) THEN Len(a) - Len(b)
    ELSE Limb(a, TopDifference(a, b)) - Limb(b, TopDifference(a, b))

\* a * k for a limb k: the low halves of the limb products plus the high
\* halves one limb up
BigMulLimb(a, k) ==
    Carried([i \in 1..(Len(a) + 1) |->
                ((Limb(a, i) * k) % Base) + ((Limb(a, i - 1) * k) \div Base)])

\* what limb j of b adds to limb k of a * b, before carries
MulTerm(a, b, k, j) ==
    ((Limb(a, k + 1 - j) * Limb(b, j)) % Base) +
    ((Limb(a, k - j) * Limb(b, j)) \div Base)

\* column sums below 8 * Base with the overflow of each moved one limb up
Folded(t) == [k \in DOMAIN t |-> (t[k] % Base) + (Limb(t, k - 1) \div Base)]

\* a * b for a b of at most 4 limbs (a mantissa has 53 bits)
BigMul(a, b) ==
    Carried(Folded([k \in 1..(Len(a) + 5) |->
                       MulTerm(a, b, k, 1) + MulTerm(a, b, k, 2) +
                       MulTerm(a, b, k, 3) + MulTerm(a, b, k, 4)]))

\* a * 2^k
BigShl(a, k) ==
    BigNorm(Zeros(k \div LimbBits) \o
            [i \in 1..(Len(a) + 1) |->
                ((Limb(a, i) * 2^(k % LimbBits)) % Base) +
                ((Limb(a, i - 1) * 2^(k % LimbBits)) \div Base)])

\* floor(a / 2^k)
BigShr(a, k) ==
    BigNorm([i \in 1..(Len(a) - (k \div LimbBits)) |->
                (a[i + (k \div LimbBits)] \div 2^(k % LimbBits)) +
                ((Limb(a, i + (k \div LimbBits) + 1) % 2^(k % LimbBits))
                    * 2^(LimbBits - (k % LimbBits)))])

\* the number of bits of a limb
IntBitLen(n) == CHOOSE k \in 0..LimbBits : n < 2^k /\ (k = 0 \/ 2^(k - 1) <= n)

BigBitLen(a) ==
    IF a = <<>> THEN 0 ELSE LimbBits * (Len(a) - 1) + IntBitLen(a[Len(a)])

BigOdd(a) == a # <<>> /\ (a[1] % 2) = 1

\* the number of trailing zero bits of a, whose lowest non-zero limb is i
TrailingZerosAt(a, i) ==
    LimbBits * (i - 1) + (CHOOSE k \in 0..(LimbBits - 1) : ((a[i] \div 2^k) % 2) = 1)

\* the number of trailing zero bits of a > 0
BigTrailingZeros(a) == TrailingZerosAt(a, Min({j \in DOMAIN a : a[j] # 0}))

\* the leading two limbs of r over the leading limb of b: for r < b * Base
\* and b with the top bit of its top limb set, at most 2 above floor(r / b)
QuotientEstimate(r, b) ==
    Min({Base - 1, (Limb(r, Len(b) + 1) * Base + Limb(r, Len(b))) \div b[Len(b)]})

\* the largest limb d <= est with b * d <= r
QuotientLimb(r, b, est) ==
    Max({d \in {est - 2, est - 1, est} : d >= 0 /\ BigCmp(BigMulLimb(b, d), r) <= 0})

\* long division of a by b, most significant limb first: q holds the limbs
\* of the quotient found so far and r the remainder of the limbs of a above
\* the next one
RECURSIVE BigDivModFrom(_, _, _, _)
\* the quotient limb d of the remainder r2 found
BigDivModWith(a, b, q, r2, d) ==
    BigDivModFrom(a, b, <<d>> \o q, BigSub(r2, BigMulLimb(b, d)))

\* the next limb of a appended to the remainder, r2
BigDivModStep(a, b, q, r2) ==
    BigDivModWith(a, b, q, r2, QuotientLimb(r2, b, QuotientEstimate(r2, b)))

BigDivModFrom(a, b, q, r) ==
    IF Len(q) = Len(a) - Len(b) + 1 THEN [q |-> BigNorm(q), r |-> r]
    ELSE BigDivModStep(a, b, q, BigNorm(<<a[Len(a) - Len(b) + 1 - Len(q)]>> \o r))

\* floor(a / b) and the remainder times 2^s, for a >= b > 0; both are scaled
\* by 2^s so that the top limb of b has its top bit set, and the division
\* starts below the limbs of a that b's own length covers
BigDivModScaled(a, b) ==
    BigDivModFrom(a, b, <<>>, SubSeq(a, Len(a) - Len(b) + 2, Len(a)))

BigDivMod(a, b) ==
    BigDivModScaled(BigShl(a, LimbBits - IntBitLen(b[Len(b)])),
                    BigShl(b, LimbBits - IntBitLen(b[Len(b)])))

(***************************************************************************)
(* float64.  A finite value is (-1)^s * m * 2^e with m odd (m = <<>>, e = 0 *)
(* for the two zeros), so that equal records are equal bit patterns; inf   *)
(* and nan carry no mantissa.                                              *)
(***************************************************************************)
Precision == 53

\* the exponent of the lowest bit of a subnormal
MinExponent == -1074

\* 2^MaxExponent is the first magnitude that overflows
MaxExponent == 1024

Fin(s, m, e) == [c |-> "fin", s |-> s, m |-> m, e |-> e]

FZero(s) == Fin(s, <<>>, 0)

NaN == [c |-> "nan", s |-> 0, m |-> <<>>, e |-> 0]

Inf(s) == [c |-> "inf", s |-> s, m |-> <<>>, e |-> 0]

IsNaN(a) == a.c = "nan"

IsInf(a) == a.c = "inf"

IsFinite(a) == a.c = "fin"

IsZero(a) == a.c = "fin" /\ a.m = <<>>

\* (-1)^s * m * 2^e for an m > 0 with tz trailing zero bits
Odd(s, m, e, tz) ==
    IF BigBitLen(m) + e > MaxExponent THEN Inf(s)
    ELSE Fin(s, BigShr(m, tz), e + tz)

\* (-1)^s * m * 2^e with m made odd; inf from 2^1024 on
Finite(s, m, e) ==
    IF m = <<>> THEN FZero(s) ELSE Odd(s, m, e, BigTrailingZeros(m))

\* whether m + f, 0 <= f < 1 and f > 0 iff sticky, is rounded up when its sh
\* low bits are dropped: the highest of them is set, and a lower one, f or
\* the lowest bit kept is (nearest, ties to even)
RoundsUp(m, sh, sticky) ==
    /\ sh > 0
    /\ BigOdd(BigShr(m, sh - 1))
    /\ (sticky \/ BigOdd(BigShr(m, sh)) \/ BigTrailingZeros(m) < sh - 1)

\* (-1)^s * (m + f) * 2^e with the sh low bits of m dropped
RoundBy(s, m, e, sticky, sh) ==
    Finite(s,
           IF RoundsUp(m, sh, sticky) THEN BigAdd(BigShr(m, sh), <<1>>)
                                      ELSE BigShr(m, sh),
           e + sh)

\* (-1)^s * (m + f) * 2^e rounded to nearest, ties to even, where 0 <= f < 1
\* and f > 0 iff sticky (only for an m of more than 53 bits): the bits below
\* the 53rd, or below 2^-1074 for a subnormal result, are dropped
Round(s, m, e, sticky) ==
    RoundBy(s, m, e, sticky, Max({0, BigBitLen(m) - Precision, MinExponent - e}))

\* a Python int
I(k) == Finite(IF k < 0 THEN 1 ELSE 0, BigFromInt(IF k < 0 THEN -k ELSE k), 0)

Xor(s, t) == IF s = t THEN 0 ELSE 1

Neg(a) == [a EXCEPT !.s = IF IsNaN(a) THEN 0 ELSE 1 - a.s]

\* the exponent of the bit above the top bit of a finite non-zero a
Top(a) == a.e + BigBitLen(a.m)

\* operands this many bits apart: the smaller only decides the rounding
FarApart == 64

\* b as far as a + b depends on it: a b more than FarApart bits below a is
\* as good as any other of its sign that far below
Near(a, b) ==
    IF Top(a) - Top(b) > FarApart THEN Fin(b.s, <<1>>, Top(a) - FarApart - 2)
    ELSE b

\* (-1)^sa * ma * 2^e + (-1)^sb * mb * 2^e, c with the sign of ma - mb;
\* x + (-x) is +0
SignedSum(sa, ma, sb, mb, e, c) ==
    IF sa # sb /\ c = 0 THEN FZero(0)
    ELSE Round(IF c >= 0 THEN sa ELSE sb,
               IF sa = sb THEN BigAdd(ma, mb)
               ELSE IF c > 0 THEN BigSub(ma, mb) ELSE BigSub(mb, ma),
               e, FALSE)

AddShifted(sa, ma, sb, mb, e) == SignedSum(sa, ma, sb, mb, e, BigCmp(ma, mb))

\* a + b with both mantissas at the exponent e
AddAligned(a, b, e) ==
    AddShifted(a.s, BigShl(a.m, a.e - e), b.s, BigShl(b.m, b.e - e), e)

AddNear(a, b) == AddAligned(a, b, Min({a.e, b.e}))

\* a + b for finite non-zero a and b: the exact sum, rounded
AddNonZero(a, b) == AddNear(Near(b, a), Near(a, b))

\* a + b with a zero among them: (-0) + (-0) is -0, any other 0 + 0 is +0
AddZero(a, b) ==
    IF IsZero(a) /\ IsZero(b) THEN FZero(IF a.s = 1 /\ b.s = 1 THEN 1 ELSE 0)
    ELSE IF IsZero(a) THEN b ELSE a

Add(a, b) ==
    IF IsFinite(a) /\ IsFinite(b)
    THEN (IF IsZero(a) \/ IsZero(b) THEN AddZero(a, b) ELSE AddNonZero(a, b))
    ELSE IF IsNaN(a) \/ IsNaN(b) \/ (IsInf(a) /\ IsInf(b) /\ a.s # b.s) THEN NaN
    ELSE IF IsInf(a) THEN a ELSE b

Sub(a, b) == Add(a, Neg(b))

\* the exact product, rounded; a zero keeps the sign of the product
Mul(a, b) ==
    IF IsFinite(a) /\ IsFinite(b)
    THEN Round(Xor(a.s, b.s), BigMul(a.m, b.m), a.e + b.e, FALSE)
    ELSE IF IsNaN(a) \/ IsNaN(b) \/ IsZero(a) \/ IsZero(b) THEN NaN
    ELSE Inf(Xor(a.s, b.s))

\* (-1)^s * (qr.q + f) * 2^e, f > 0 iff the division left a remainder
RoundQuotient(s, qr, e) == Round(s, qr.q, e, qr.r # <<>>)

\* a / b for finite non-zero a and b: a is scaled by 2^k so that the
\* quotient has at least Precision + 1 bits, and the remainder decides a tie
Quotient(a, b, k) ==
    RoundQuotient(Xor(a.s, b.s), BigDivMod(BigShl(a.m, k), b.m), a.e - b.e - k)

\* IEEE division, as numpy applies it: x / +-0 is inf with the sign of x
\* times the sign of the zero, 0 / 0 is nan, and nothing is raised
Div(a, b) ==
    IF IsFinite(a) /\ IsFinite(b)
    THEN (IF IsZero(b) THEN (IF IsZero(a) THEN NaN ELSE Inf(Xor(a.s, b.s)))
          ELSE IF IsZero(a) THEN FZero(Xor(a.s, b.s))
          ELSE Quotient(a, b, Max({0, Precision + 2 + BigBitLen(b.m) - BigBitLen(a.m)})))
    ELSE IF IsNaN(a) \/ IsNaN(b) \/ (IsInf(a) /\ IsInf(b)) THEN NaN
    ELSE IF IsInf(a) THEN Inf(Xor(a.s, b.s))
    ELSE FZero(Xor(a.s, b.s))

\* |a| < |b| for finite non-zero a, b
MagLess(a, b) ==
    IF Top(a) # Top(b) THEN Top(a) < Top(b)
    ELSE BigCmp(BigShl(a.m, a.e - Min({a.e, b.e})),
                BigShl(b.m, b.e - Min({a.e, b.e}))) < 0

\* -1, 0 or 1 as a is negative, a zero or positive; a is not nan
Sign(a) == IF IsZero(a) THEN 0 ELSE IF a.s = 1 THEN -1 ELSE 1

\* a < b; any comparison with nan is false
Lt(a, b) ==
    IF IsNaN(a) \/ IsNaN(b) THEN FALSE
    ELSE IF Sign(a) # Sign(b) THEN Sign(a) < Sign(b)
    ELSE IF Sign(a) = 0 \/ a = b THEN FALSE
    ELSE IF IsInf(a) \/ IsInf(b) THEN (IF a.s = 0 THEN IsInf(b) ELSE IsInf(a))
    ELSE MagLess(IF a.s = 0 THEN a ELSE b, IF a.s = 0 THEN b ELSE a)

\* a == b: the two zeros are equal, nan equals nothing
Eq(a, b) == ~IsNaN(a) /\ ~IsNaN(b) /\ (a = b \/ (IsZero(a) /\ IsZero(b)))

Leq(a, b) == Eq(a, b) \/ Lt(a, b)

Zero == I(0)

\* the float nearest to n / d: a decimal literal n/d, or int / int
Q(n, d) == Div(I(n), I(d))

(***************************************************************************)
(* Sidebar widgets                                                         *)
(***************************************************************************)
MinHorizon == 1

MaxHorizon == 4

SliderMaxHorizon == 24

DefaultHorizon == 6

\* slider 0..100, divided by 100
Coverage(percent) == Div(I(percent), I(100))

\* a spread slider at n/100 percent, divided by 100
Spread(n) == Div(Q(n, 100), I(100))

\* the values the sidebar shows before the user touches it
DefaultInputs ==
    [treasury_usdt |-> I(1025000), monthly_eur_costs |-> I(95000),
     monthly_pln_costs |-> I(230000), forecast_months |-> DefaultHorizon,
     usd_pln_start |-> Q(360, 100), eur_usd_start |-> Q(1175, 1000),
     usd_pln_end |-> Q(350, 100), eur_usd_end |-> Q(120, 100),
     hedge_coverage |-> Coverage(100),
     otc_spread |-> Spread(20), bank_fx_spread |-> Spread(15)]

\* entries a user means: positive treasury and rates, costs >= 0
TreasuryValues == {I(1), I(8)}

EurCostValues == {I(0), I(1), I(2)}

PlnCostValues == {I(0), I(1), I(2)}

UsdPlnValues == {I(2), I(3)}

EurUsdValues == {I(1), Q(3, 2)}

CoverageValues == {Coverage(0), Coverage(30), Coverage(100)}

\* slider 0.05..0.50 step 0.05, divided by 100
OtcSpreadValues == {Spread(5)}

\* slider 0.05..0.30 step 0.05, divided by 100
BankSpreadValues == {Spread(15)}

MeantInputs ==
    [treasury_usdt : TreasuryValues, monthly_eur_costs : EurCostValues,
     monthly_pln_costs : PlnCostValues, forecast_months : MinHorizon..MaxHorizon,
     usd_pln_start : UsdPlnValues, eur_usd_start : EurUsdValues,
     usd_pln_end : UsdPlnValues, eur_usd_end : EurUsdValues,
     hedge_coverage : CoverageValues,
     otc_spread : OtcSpreadValues, bank_fx_spread : BankSpreadValues]

\* number_input without min_value: zero and negative numbers are accepted
AnyTreasuryValues == {I(-2), I(0), I(3)}

AnyUsdPlnValues == {I(-2), I(0), I(2)}

AnyEurUsdValues == {I(-1), I(1)}

AcceptedInputs ==
    [treasury_usdt : AnyTreasuryValues, monthly_eur_costs : {I(0), I(1)},
     monthly_pln_costs : {I(0), I(2)}, forecast_months : MinHorizon..MaxHorizon,
     usd_pln_start : AnyUsdPlnValues, eur_usd_start : AnyEurUsdValues,
     usd_pln_end : AnyUsdPlnValues, eur_usd_end : AnyEurUsdValues,
     hedge_coverage : {Coverage(50)},
     otc_spread : {Spread(20)}, bank_fx_spread : {Spread(15)}]

EnteredInputs == MeantInputs \cup AcceptedInputs

None == <<>>

(***************************************************************************)
(* The computation                                                         *)
(***************************************************************************)
\* mutant: np.arange(1, n), one month short
ArangeShort(n) == [i \in 1..(n - 1) |-> i]

\* np.arange(1, n + 1)
Arange(n) == [i \in 1..n |-> i]

\* np.linspace(start, stop, num), num >= 1: arange(0, num) * step + start
\* with step = (stop - start) / (num - 1), the last element set to stop
Linspace(start, stop, num) ==
    LET div   == num - 1
        delta == Sub(stop, start)
        step  == Div(delta, I(div))
        y(i)  == IF div > 0
                 THEN (IF Eq(step, Zero) THEN Mul(Div(I(i), I(div)), delta)
                       ELSE Mul(I(i), step))
                 ELSE Mul(I(i), delta)
    IN  [i \in 1..num |->
            IF num > 1 /\ i = num THEN stop ELSE Add(y(i - 1), start)]

\* np.full(n, v)
Full(n, v) == [i \in 1..n |-> v]

\* mutant: the EUR leg divided by its rate, like the PLN leg
CalcMonthlyCostsEurDivided(usd_pln, eur_usd) ==
    Add(Div(monthly_pln_costs, usd_pln), Div(monthly_eur_costs, eur_usd))

CalcMonthlyCosts(usd_pln, eur_usd) ==
    LET pln_in_usd == Div(monthly_pln_costs, usd_pln)
        eur_in_usd == Mul(monthly_eur_costs, eur_usd)
    IN  Add(pln_in_usd, eur_in_usd)

\* mutant: the two weights exchanged
BlendSwapped(coverage, hedged_part, unhedged) ==
    [i \in 1..Len(hedged_part) |->
        Add(Mul(Sub(I(1), coverage), hedged_part[i]),
            Mul(coverage, unhedged[i]))]

\* hedge_coverage * costs_hedged_part + (1 - hedge_coverage) * costs_unhedged
Blend(coverage, hedged_part, unhedged) ==
    [i \in 1..Len(hedged_part) |->
        Add(Mul(coverage, hedged_part[i]),
            Mul(Sub(I(1), coverage), unhedged[i]))]

\* line 58, once monthly_pln_costs / usd_pln_start has been evaluated
HedgingExecutionCosts(hedged_part, coverage, pln_in_usd_start) ==
    [i \in 1..Len(hedged_part) |->
        Mul(Mul(hedged_part[i], coverage),
            Add(otc_spread,
                Div(Mul(bank_fx_spread, pln_in_usd_start), hedged_part[i])))]

\* elementwise a + b of two arrays
ArrayAdd(a, b) == [i \in 1..Len(a) |-> Add(a[i], b[i])]

\* costs_hedged + hedging_execution_costs, the argument of lines 62 and 78
HedgedTotalCosts == ArrayAdd(costs_hedged, hedging_execution_costs)

RECURSIVE CumsumFrom(_, _, _)
CumsumFrom(s, i, acc) ==
    IF i > Len(s) THEN <<>>
    ELSE LET t == Add(acc, s[i]) IN <<t>> \o CumsumFrom(s, i + 1, t)

\* np.cumsum: the first element as it is, then one addition per element
Cumsum(s) == IF Len(s) = 0 THEN <<>> ELSE <<s[1]>> \o CumsumFrom(s, 2, s[1])

\* scalar - array
Remaining(treasury, cumulative) ==
    [i \in 1..Len(cumulative) |-> Sub(treasury, cumulative[i])]

\* the loop of calc_runway from position k (1-based; i = k - 1 in the source)
RECURSIVE RunwayLoop(_, _, _)
RunwayLoop(remaining, monthly_costs, k) ==
    IF k > Len(monthly_costs) THEN I(Len(monthly_costs))
    ELSE LET cost == monthly_costs[k]
             rem  == Sub(remaining, cost)
         IN  IF Leq(rem, Zero)
             THEN Add(I(k - 1), Div(Add(rem, cost), cost))
             ELSE RunwayLoop(rem, monthly_costs, k + 1)

\* mutant: the fraction taken of the balance after the month's cost
RECURSIVE RunwayLoopNoAddBack(_, _, _)
RunwayLoopNoAddBack(remaining, monthly_costs, k) ==
    IF k > Len(monthly_costs) THEN I(Len(monthly_costs))
    ELSE LET cost == monthly_costs[k]
             rem  == Sub(remaining, cost)
         IN  IF Leq(rem, Zero)
             THEN Add(I(k - 1), Div(rem, cost))
             ELSE RunwayLoopNoAddBack(rem, monthly_costs, k + 1)

calc_runway_no_add_back(treasury, monthly_costs) ==
    RunwayLoopNoAddBack(treasury, monthly_costs, 1)

\* mutant: the month counted from 1 instead of 0
RECURSIVE RunwayLoopOneBased(_, _, _)
RunwayLoopOneBased(remaining, monthly_costs, k) ==
    IF k > Len(monthly_costs) THEN I(Len(monthly_costs))
    ELSE LET cost == monthly_costs[k]
             rem  == Sub(remaining, cost)
         IN  IF Leq(rem, Zero)
             THEN Add(I(k), Div(Add(rem, cost), cost))
             ELSE RunwayLoopOneBased(rem, monthly_costs, k + 1)

calc_runway_one_based(treasury, monthly_costs) ==
    RunwayLoopOneBased(treasury, monthly_costs, 1)

calc_runway(treasury, monthly_costs) == RunwayLoop(treasury, monthly_costs, 1)

Init ==
    /\ pc = "sidebar"
    /\ \E p \in EnteredInputs \cup {DefaultInputs} :
        /\ treasury_usdt = p.treasury_usdt
        /\ monthly_eur_costs = p.monthly_eur_costs
        /\ monthly_pln_costs = p.monthly_pln_costs
        /\ forecast_months = p.forecast_months
        /\ usd_pln_start = p.usd_pln_start
        /\ eur_usd_start = p.eur_usd_start
        /\ usd_pln_end = p.usd_pln_end
        /\ eur_usd_end = p.eur_usd_end
        /\ hedge_coverage = p.hedge_coverage
        /\ otc_spread = p.otc_spread
        /\ bank_fx_spread = p.bank_fx_spread
    /\ months = None /\ usd_pln_path = None /\ eur_usd_path = None
    /\ usd_pln_hedged = None /\ eur_usd_hedged = None
    /\ costs_unhedged = None /\ costs_hedged_part = None /\ costs_hedged = None
    /\ hedging_execution_costs = None
    /\ cumulative_unhedged = None /\ cumulative_hedged = None
    /\ treasury_unhedged = None /\ treasury_hedged = None
    /\ runway_unhedged = None /\ runway_hedged = None

\* lines 34-42
BuildRatePaths ==
    /\ pc = "sidebar"
    /\ months' = Arange(forecast_months)
    /\ usd_pln_path' = Linspace(usd_pln_start, usd_pln_end, forecast_months)
    /\ eur_usd_path' = Linspace(eur_usd_start, eur_usd_end, forecast_months)
    /\ usd_pln_hedged' = Full(forecast_months, usd_pln_start)
    /\ eur_usd_hedged' = Full(forecast_months, eur_usd_start)
    /\ pc' = "paths"
    /\ UNCHANGED <<inputs, costs, hedging_execution_costs, balances, runways>>

\* lines 51-55
ComputeCosts ==
    /\ pc = "paths"
    /\ LET unhedged == [i \in 1..forecast_months |->
                           CalcMonthlyCosts(usd_pln_path[i], eur_usd_path[i])]
           part == [i \in 1..forecast_months |->
                           CalcMonthlyCosts(usd_pln_hedged[i], eur_usd_hedged[i])]
       IN  /\ costs_unhedged' = unhedged
           /\ costs_hedged_part' = part
           /\ costs_hedged' = Blend(hedge_coverage, part, unhedged)
    /\ pc' = "costs"
    /\ UNCHANGED <<inputs, paths, hedging_execution_costs, balances, runways>>

\* line 58: monthly_pln_costs / usd_pln_start divides two Python scalars
ComputeExecutionCosts ==
    /\ pc = "costs"
    /\ ~IsZero(usd_pln_start)
    /\ hedging_execution_costs' =
          HedgingExecutionCosts(costs_hedged_part, hedge_coverage,
                                Div(monthly_pln_costs, usd_pln_start))
    /\ pc' = "execution"
    /\ UNCHANGED <<inputs, paths, costs, balances, runways>>

\* line 58 with usd_pln_start = 0.0: Python raises and the script run ends
RaiseZeroDivisionError ==
    /\ pc = "costs"
    /\ IsZero(usd_pln_start)
    /\ pc' = "ZeroDivisionError"
    /\ UNCHANGED <<inputs, paths, costs, hedging_execution_costs, balances, runways>>

\* lines 61-62
Cumulate ==
    /\ pc = "execution"
    /\ cumulative_unhedged' = Cumsum(costs_unhedged)
    /\ cumulative_hedged' = Cumsum(HedgedTotalCosts)
    /\ pc' = "cumulative"
    /\ UNCHANGED <<inputs, paths, costs, hedging_execution_costs,
                   treasury_unhedged, treasury_hedged, runways>>

\* lines 65-66
RemainingTreasury ==
    /\ pc = "cumulative"
    /\ treasury_unhedged' = Remaining(treasury_usdt, cumulative_unhedged)
    /\ treasury_hedged' = Remaining(treasury_usdt, cumulative_hedged)
    /\ pc' = "treasury"
    /\ UNCHANGED <<inputs, paths, costs, hedging_execution_costs,
                   cumulative_unhedged, cumulative_hedged, runways>>

\* lines 77-78
Runway ==
    /\ pc = "treasury"
    /\ runway_unhedged' = calc_runway(treasury_usdt, costs_unhedged)
    /\ runway_hedged' = calc_runway(treasury_usdt, HedgedTotalCosts)
    /\ pc' = "done"
    /\ UNCHANGED <<inputs, paths, costs, hedging_execution_costs, balances>>

Next ==
    \/ BuildRatePaths
    \/ ComputeCosts
    \/ ComputeExecutionCosts
    \/ RaiseZeroDivisionError
    \/ Cumulate
    \/ RemainingTreasury
    \/ Runway

Spec == Init /\ [][Next]_vars

(***************************************************************************)
(* calc_runway on its own: line 77 run from any treasury and any cost      *)
(* series, not only those the statements above it produce                  *)
(***************************************************************************)
TreasuryArguments == {I(-1), I(0), I(1), Q(5, 2), I(4)}

CostArguments == {I(0), Q(1, 2), Q(7, 10), I(1), I(3)}

CostSeriesArguments ==
    UNION {[1..n -> CostArguments] : n \in MinHorizon..MaxHorizon}

InitRunway ==
    /\ pc = "call"
    /\ treasury_usdt \in TreasuryArguments
    /\ costs_unhedged \in CostSeriesArguments
    /\ forecast_months = Len(costs_unhedged)
    /\ monthly_eur_costs = None /\ monthly_pln_costs = None
    /\ usd_pln_start = None /\ eur_usd_start = None
    /\ usd_pln_end = None /\ eur_usd_end = None
    /\ hedge_coverage = None /\ otc_spread = None /\ bank_fx_spread = None
    /\ months = None /\ usd_pln_path = None /\ eur_usd_path = None
    /\ usd_pln_hedged = None /\ eur_usd_hedged = None
    /\ costs_hedged_part = None /\ costs_hedged = None
    /\ hedging_execution_costs = None
    /\ cumulative_unhedged = None /\ cumulative_hedged = None
    /\ treasury_unhedged = None /\ treasury_hedged = None
    /\ runway_unhedged = None /\ runway_hedged = None

\* line 77
RunwayUnhedged ==
    /\ pc = "call"
    /\ runway_unhedged' = calc_runway(treasury_usdt, costs_unhedged)
    /\ pc' = "returned"
    /\ UNCHANGED <<inputs, paths, costs, hedging_execution_costs, balances,
                   runway_hedged>>

SpecRunway == InitRunway /\ [][RunwayUnhedged]_vars

(***************************************************************************)
(* Vocabulary of the properties                                            *)
(***************************************************************************)
Positive(a) == IsFinite(a) /\ Lt(Zero, a)

NonNegative(a) == IsFinite(a) /\ Leq(Zero, a)

InUnitInterval(a) == Leq(Zero, a) /\ Leq(a, I(1))

\* the parameter sets the engine is specified for
ValidRates ==
    /\ Positive(usd_pln_start) /\ Positive(usd_pln_end)
    /\ Positive(eur_usd_start) /\ Positive(eur_usd_end)

ValidParameters ==
    /\ Positive(treasury_usdt)
    /\ NonNegative(monthly_eur_costs) /\ NonNegative(monthly_pln_costs)
    /\ forecast_months \in MinHorizon..SliderMaxHorizon
    /\ ValidRates
    /\ InUnitInterval(hedge_coverage)
    /\ InUnitInterval(otc_spread) /\ InUnitInterval(bank_fx_spread)

FlatMarket == Eq(usd_pln_end, usd_pln_start) /\ Eq(eur_usd_end, eur_usd_start)

\* s[1] + ... + s[k], each sum a float
RECURSIVE PrefixSum(_, _)
PrefixSum(s, k) == IF k = 0 THEN Zero ELSE Add(PrefixSum(s, k - 1), s[k])

\* the balance after the first k months, the costs subtracted one at a time
RECURSIVE Balance(_, _, _)
Balance(treasury, s, k) ==
    IF k = 0 THEN treasury ELSE Sub(Balance(treasury, s, k - 1), s[k])

\* the 1-based months at whose end a balance series is <= 0
Depleted(series) == {i \in 1..Len(series) : Leq(series[i], Zero)}

\* the 1-based month at which treasury minus the costs first is <= 0; 0 if never
FirstDepletion(treasury, s) ==
    LET D == {i \in 1..Len(s) : Leq(Balance(treasury, s, i), Zero)}
    IN  IF D = {} THEN 0 ELSE Min(D)

\* i + (balance before month i) / costs[i] for the first depleted month, the
\* horizon if there is none
SpecifiedRunway(treasury, s) ==
    LET k == FirstDepletion(treasury, s)
    IN  IF k = 0 THEN I(Len(s))
        ELSE Add(I(k - 1), Div(Balance(treasury, s, k - 1), s[k]))

\* the same with the balance before month i rebuilt from the closing balance
\* r of that month as r + costs[i]
RunwayFromClosingBalance(treasury, s) ==
    LET k == FirstDepletion(treasury, s)
    IN  IF k = 0 THEN I(Len(s))
        ELSE Add(I(k - 1), Div(Add(Balance(treasury, s, k), s[k]), s[k]))

AfterPaths == {"paths", "costs", "execution", "cumulative", "treasury", "done",
               "ZeroDivisionError"}

AfterCosts == AfterPaths \ {"paths"}

AfterExecution == {"execution", "cumulative", "treasury", "done"}

AfterCumulate == {"cumulative", "treasury", "done"}

AfterTreasury == {"treasury", "done"}

AllPositive(s) == \A i \in 1..Len(s) : Positive(s[i])

(***************************************************************************)
(* C1                                                                      *)
(***************************************************************************)
\* C1: for a positive treasury and a cost series whose costs are
\* all > 0, calc_runway returns i + (balance before month i) / costs[i] for
\* the first 0-based month i whose closing balance is <= 0, and exactly
\* len(costs) when the balance stays > 0 through the last month.
C1_RunwayInterpolates ==
    (pc = "returned" /\ Positive(treasury_usdt) /\ AllPositive(costs_unhedged))
    => Eq(runway_unhedged, SpecifiedRunway(treasury_usdt, costs_unhedged))

\* C1 as amended: for a positive treasury and a cost series whose costs are
\* all > 0, calc_runway returns the float64 value of i + (r + costs[i]) /
\* costs[i], where i is the first 0-based month whose closing balance r
\* (the treasury less the costs up to and including month i, subtracted one
\* at a time) is <= 0, and exactly len(costs) when the closing balance stays
\* > 0 through the last month.
C1_RunwayFromClosingBalance ==
    (pc = "returned" /\ Positive(treasury_usdt) /\ AllPositive(costs_unhedged))
    => runway_unhedged = RunwayFromClosingBalance(treasury_usdt, costs_unhedged)

\* a call that depletes inside the second month at a fractional month, where
\* closing balance plus cost does not give back the opening balance
C1_Witness ==
    /\ pc = "returned"
    /\ Positive(treasury_usdt) /\ AllPositive(costs_unhedged)
    /\ FirstDepletion(treasury_usdt, costs_unhedged) = 2
    /\ Lt(I(1), runway_unhedged) /\ Lt(runway_unhedged, I(2))
    /\ runway_unhedged = RunwayFromClosingBalance(treasury_usdt, costs_unhedged)
    /\ ~Eq(runway_unhedged, SpecifiedRunway(treasury_usdt, costs_unhedged))

(***************************************************************************)
(* C2                                                                      *)
(***************************************************************************)
InHorizon(runway) == Leq(Zero, runway) /\ Leq(runway, I(forecast_months))

\* C2: for valid parameters (positive treasury, horizon 1..24, non-negative
\* costs) both runway_unhedged and runway_hedged lie in [0, horizon].
C2_RunwayWithinHorizon ==
    (pc = "done" /\ ValidParameters) =>
        InHorizon(runway_unhedged) /\ InHorizon(runway_hedged)

\* a valid run whose unhedged treasury is used up exactly at the end of the
\* last month: the runway is the horizon itself, reached by the early return
C2_Witness ==
    /\ pc = "done" /\ ValidParameters
    /\ forecast_months >= 2
    /\ FirstDepletion(treasury_usdt, costs_unhedged) = forecast_months
    /\ runway_unhedged = I(forecast_months)
    /\ Lt(runway_hedged, I(forecast_months))

(***************************************************************************)
(* C3                                                                      *)
(***************************************************************************)
\* C3: when the month i at which the balance is first <= 0 has cost 0
\* (treasury <= 0), calc_runway returns i with no fractional adjustment
\* instead of dividing by the zero cost.
C3_ZeroCostMonthGuarded ==
    (/\ pc = "done" /\ ValidRates
     /\ FirstDepletion(treasury_usdt, costs_unhedged) # 0
     /\ IsZero(costs_unhedged[FirstDepletion(treasury_usdt, costs_unhedged)]))
    => runway_unhedged = I(FirstDepletion(treasury_usdt, costs_unhedged) - 1)

(***************************************************************************)
(* C4                                                                      *)
(***************************************************************************)
\* C4: with both monthly cost inputs zero the hedging execution cost of every
\* month is zero, so the hedged treasury stays at its initial value and
\* runway_hedged is the horizon.
C4_ZeroCostsZeroExecutionCost ==
    (/\ IsZero(monthly_eur_costs) /\ IsZero(monthly_pln_costs)
     /\ Positive(treasury_usdt) /\ ValidRates)
    => /\ pc \in AfterExecution =>
            \A i \in 1..forecast_months : Eq(hedging_execution_costs[i], Zero)
       /\ pc \in AfterTreasury =>
            \A i \in 1..forecast_months : Eq(treasury_hedged[i], treasury_usdt)
       /\ pc = "done" => Eq(runway_hedged, I(forecast_months))

(***************************************************************************)
(* C5                                                                      *)
(***************************************************************************)
\* C5: a USD/PLN start or end input of 0 or below is rejected before any
\* computation, so once the costs are computed every rate on the market and
\* hedged paths is > 0 and every monthly cost is finite.
C5_NonPositiveRateRejected ==
    pc \in AfterCosts =>
        \A i \in 1..forecast_months :
            /\ Positive(usd_pln_path[i]) /\ Positive(usd_pln_hedged[i])
            /\ IsFinite(costs_unhedged[i]) /\ IsFinite(costs_hedged_part[i])

(***************************************************************************)
(* C6                                                                      *)
(***************************************************************************)
\* C6: for valid rates and costs, with hedge_coverage = 0 costs_hedged equals
\* costs_unhedged in every month, and with hedge_coverage = 1 it equals
\* costs_hedged_part.
C6_BlendEndpoints ==
    (/\ pc \in AfterCosts /\ ValidRates
     /\ NonNegative(monthly_eur_costs) /\ NonNegative(monthly_pln_costs))
    => \A i \in 1..forecast_months :
          /\ Eq(hedge_coverage, I(0)) => costs_hedged[i] = costs_unhedged[i]
          /\ Eq(hedge_coverage, I(1)) => costs_hedged[i] = costs_hedged_part[i]

\* a moving market, where the two endpoints differ, seen at full coverage
C6_Witness ==
    /\ pc \in AfterCosts /\ ValidRates
    /\ hedge_coverage = I(1)
    /\ forecast_months >= 2
    /\ Positive(monthly_pln_costs)
    /\ costs_hedged = costs_hedged_part
    /\ \E i \in 1..forecast_months : ~Eq(costs_hedged_part[i], costs_unhedged[i])

(***************************************************************************)
(* C7                                                                      *)
(***************************************************************************)
ExampleMonthlyCost == Add(Div(I(230000), Q(360, 100)), Mul(I(95000), Q(1175, 1000)))

\* lo/scale <= a < hi/scale: a shown with the decimals of scale is (lo+hi)/2
Between(a, lo, hi, scale) == Leq(Q(lo, scale), a) /\ Lt(a, Q(hi, scale))

\* C7: for the example parameters the blended hedged cost is
\* 230000/3.60 + 95000*1.175 in each of the 6 months (175513.9 to one
\* decimal), its 6-month sum exceeds the treasury, the runway over that
\* cost-only series is reached in month index 5 and is 5.84 to two decimals,
\* and runway_hedged as the program computes it is strictly smaller and < 6.
C7_ExampleScenario ==
    (pc = "done" /\ inputs = << DefaultInputs.treasury_usdt,
                                DefaultInputs.monthly_eur_costs,
                                DefaultInputs.monthly_pln_costs,
                                DefaultInputs.forecast_months,
                                DefaultInputs.usd_pln_start,
                                DefaultInputs.eur_usd_start,
                                DefaultInputs.usd_pln_end,
                                DefaultInputs.eur_usd_end,
                                DefaultInputs.hedge_coverage,
                                DefaultInputs.otc_spread,
                                DefaultInputs.bank_fx_spread >>)
    => LET cost_only == calc_runway(treasury_usdt, costs_hedged)
       IN  /\ \A i \in 1..6 : Eq(costs_hedged[i], ExampleMonthlyCost)
           /\ Between(ExampleMonthlyCost, 17551385, 17551395, 100)
           /\ Lt(treasury_usdt, PrefixSum(costs_hedged, 6))
           /\ FirstDepletion(treasury_usdt, costs_hedged) = 5 + 1
           /\ Lt(I(5), cost_only) /\ Lt(cost_only, I(6))
           /\ Between(cost_only, 5835, 5845, 1000)
           /\ Lt(runway_hedged, cost_only)
           /\ Lt(runway_hedged, I(6))

\* the example run, finished, with its hedged runway inside month index 5
C7_Witness ==
    /\ pc = "done"
    /\ treasury_usdt = I(1025000) /\ forecast_months = 6
    /\ monthly_pln_costs = I(230000) /\ monthly_eur_costs = I(95000)
    /\ hedge_coverage = I(1)
    /\ Between(runway_hedged, 5825, 5835, 1000)

(***************************************************************************)
(* C8                                                                      *)
(***************************************************************************)
\* C8: every series produced in one pass (months, the two market and the two
\* hedged rate paths, the three cost series, the execution costs, the two
\* cumulative and the two treasury series) has length exactly the horizon.
C8_SeriesLengths ==
    /\ pc \in AfterPaths =>
          /\ Len(months) = forecast_months
          /\ Len(usd_pln_path) = forecast_months
          /\ Len(eur_usd_path) = forecast_months
          /\ Len(usd_pln_hedged) = forecast_months
          /\ Len(eur_usd_hedged) = forecast_months
    /\ pc \in AfterCosts =>
          /\ Len(costs_unhedged) = forecast_months
          /\ Len(costs_hedged_part) = forecast_months
          /\ Len(costs_hedged) = forecast_months
    /\ pc \in AfterExecution => Len(hedging_execution_costs) = forecast_months
    /\ pc \in AfterCumulate =>
          /\ Len(cumulative_unhedged) = forecast_months
          /\ Len(cumulative_hedged) = forecast_months
    /\ pc \in AfterTreasury =>
          /\ Len(treasury_unhedged) = forecast_months
          /\ Len(treasury_hedged) = forecast_months

\* a finished pass over a horizon of several months
C8_Witness ==
    /\ pc = "done"
    /\ forecast_months >= 3
    /\ Len(months) = forecast_months /\ months[forecast_months] = forecast_months
    /\ Len(treasury_hedged) = forecast_months

(***************************************************************************)
(* C9                                                                      *)
(***************************************************************************)
RunwayAgrees(series, runway) ==
    IF Depleted(series) = {}
    THEN Eq(runway, I(forecast_months))
    ELSE LET i == Min(Depleted(series)) - 1
         IN  Lt(I(i), runway) /\ Leq(runway, I(i + 1))

\* C9: for positive treasury and non-negative costs, if i is the first 0-based
\* index at which a treasury series is <= 0 then the runway of the same regime
\* satisfies i < runway <= i + 1, and if there is none the runway is the
\* horizon; this holds for the unhedged and for the hedged regime.
C9_RunwayMatchesTreasurySeries ==
    (pc = "done" /\ ValidParameters) =>
        /\ RunwayAgrees(treasury_unhedged, runway_unhedged)
        /\ RunwayAgrees(treasury_hedged, runway_hedged)

(***************************************************************************)
(* C10                                                                     *)
(***************************************************************************)
FlatMarketRun ==
    /\ pc = "done" /\ ValidParameters /\ FlatMarket
    /\ Positive(monthly_eur_costs) /\ Positive(monthly_pln_costs)

\* hedging costs at least as much: the hedged balance and runway are no higher
\* than the unhedged ones, and the same at coverage 0
HedgingOnlyCosts ==
    /\ \A i \in 1..forecast_months :
          /\ Leq(treasury_hedged[i], treasury_unhedged[i])
          /\ Eq(hedge_coverage, I(0)) => Eq(treasury_hedged[i], treasury_unhedged[i])
    /\ Leq(runway_hedged, runway_unhedged)
    /\ Eq(hedge_coverage, I(0)) => Eq(runway_hedged, runway_unhedged)

\* C10: in a flat market, for every coverage in [0,1], positive
\* costs and positive treasury, costs_hedged equals costs_unhedged in every
\* month, treasury_hedged[i] <= treasury_unhedged[i] for every month and
\* runway_hedged <= runway_unhedged, with equality when coverage = 0.
C10_FlatMarketHedgingOnlyCosts ==
    FlatMarketRun =>
        /\ \A i \in 1..forecast_months : Eq(costs_hedged[i], costs_unhedged[i])
        /\ HedgingOnlyCosts

====
